---- MODULE Spec2Model ----
(***************************************************************************)
(* Model of the option value codecs of src/option_types.hh: the overloads  *)
(* of option_to_string, option_from_string and option_add for int, size_t, *)
(* bool, StronglyTypedNumber, Vector, HashMap, std::tuple, PrefixedList    *)
(* and LineAndColumn.                                                      *)
(*                                                                         *)
(* A String is a sequence of one-character strings.  One option value of   *)
(* one type is under test in a behaviour; every step is one call of a      *)
(* codec function on that value, and the call's input, the value before    *)
(* the call, the exception it threw and its return value are recorded.     *)
(***************************************************************************)
EXTENDS Integers, Sequences, FiniteSets

VARIABLES kind, opt, pre, op, arg, src, err, ret

vars == <<kind, opt, pre, op, arg, src, err, ret>>

(***************************************************************************)
(* Bounds of the model.                                                    *)
(***************************************************************************)
MaxStrLen == 3      \* length of the input strings of list, tuple, prefixed list
MaxMapStrLen == 4   \* length of the input strings of maps
MaxNumLen == 2      \* length of the input strings of the integer types
MaxElemLen == 2     \* length of one string element of a list, tuple or prefix
MaxMapElemLen == 1  \* length of one key or value of an encoded map
MaxListLen == 2     \* number of elements of an encoded list or map
MaxDestLen == 1     \* number of elements of a destination before the call

(***************************************************************************)
(* Characters and strings.                                                 *)
(***************************************************************************)
list_separator == ":"
tuple_separator == "|"
pair_separator == "="
backslash == "\\"
comma == ","

Digits == {"0", "1", "2", "3", "4", "5", "6", "7", "8", "9"}

DigitVal(c) ==
    CASE c = "0" -> 0 [] c = "1" -> 1 [] c = "2" -> 2 [] c = "3" -> 3
      [] c = "4" -> 4 [] c = "5" -> 5 [] c = "6" -> 6 [] c = "7" -> 7
      [] c = "8" -> 8 [] c = "9" -> 9

\* the sequences of at most n elements of elems
RECURSIVE Lists(_, _)
Lists(elems, n) ==
    IF n = 0 THEN {<<>>}
    ELSE LET shorter == Lists(elems, n - 1)
         IN shorter \cup {Append(l, e) : l \in shorter, e \in elems}

Strings(chars, n) == Lists(chars, n)

IntMax == 2147483647
IntMin == -IntMax - 1

(***************************************************************************)
(* Exceptions.  NoError is the absence of one.                             *)
(***************************************************************************)
NoError == "none"
ParseError == "ParseError"
BoolError == "boolean values are either true, yes, false or no"
MapError == "map option expects key=value"
TupleFewError == "not enough elements in tuple"
TupleManyError == "to many elements in tuple"
AddError == "no add operation supported for this option type"
LineColumnError == "expected <line>,<column>"

(***************************************************************************)
(* escape and split (string_utils): every occurrence of sep or esc is      *)
(* prefixed by esc; split scans left to right, esc followed by a character *)
(* gives that character literally, an unescaped sep ends the element.      *)
(***************************************************************************)
RECURSIVE escape(_, _, _)
escape(str, sep, esc) ==
    IF str = <<>> THEN <<>>
    ELSE LET c == Head(str)
             rest == escape(Tail(str), sep, esc)
         IN IF c = sep \/ c = esc THEN <<esc, c>> \o rest ELSE <<c>> \o rest

RECURSIVE SplitFrom(_, _, _, _, _, _)
SplitFrom(str, i, cur, acc, sep, esc) ==
    IF i > Len(str) THEN Append(acc, cur)
    ELSE IF str[i] = esc /\ i < Len(str)
         THEN SplitFrom(str, i + 2, Append(cur, str[i + 1]), acc, sep, esc)
    ELSE IF str[i] = sep
         THEN SplitFrom(str, i + 1, <<>>, Append(acc, cur), sep, esc)
    ELSE SplitFrom(str, i + 1, Append(cur, str[i]), acc, sep, esc)

split(str, sep, esc) == SplitFrom(str, 1, <<>>, <<>>, sep, esc)

\* split(str, sep) without an escape character
NoEscape == "no escape"
split2(str, sep) == SplitFrom(str, 1, <<>>, <<>>, sep, NoEscape)

(***************************************************************************)
(* str_to_int: [-]digit+ parses to its value, anything else throws.        *)
(***************************************************************************)
RECURSIVE DecimalValue(_, _, _)
DecimalValue(str, acc, sign) ==
    IF str = <<>> THEN acc
    ELSE DecimalValue(Tail(str), 10 * acc + sign * DigitVal(Head(str)), sign)

IsDigits(str) == str # <<>> /\ \A i \in 1..Len(str) : str[i] \in Digits

str_to_int(str) ==
    IF IsDigits(str)
    THEN [ok |-> TRUE, val |-> DecimalValue(str, 0, 1)]
    ELSE IF str # <<>> /\ Head(str) = "-" /\ IsDigits(Tail(str))
    THEN [ok |-> TRUE, val |-> DecimalValue(Tail(str), 0, -1)]
    ELSE [ok |-> FALSE, val |-> 0]

(***************************************************************************)
(* The structures.                                                         *)
(***************************************************************************)
PrefixedList(p, l) == [list |-> l, prefix |-> p]
LineAndColumn(l, c) == [column |-> c, line |-> l]

(***************************************************************************)
(* Scalar codecs.  A decode returns the destination as the call leaves it  *)
(* and the exception thrown.  Scalar types are named "int", "bool" and     *)
(* "string".                                                               *)
(***************************************************************************)
Done(value) == [opt |-> value, err |-> NoError]
Thrown(value, error) == [opt |-> value, err |-> error]

option_from_string_int(str, opt_) ==
    LET r == str_to_int(str)
    IN IF r.ok THEN Done(r.val) ELSE Thrown(opt_, ParseError)

t_r_u_e == <<"t", "r", "u", "e">>
y_e_s == <<"y", "e", "s">>
f_a_l_s_e == <<"f", "a", "l", "s", "e">>
n_o == <<"n", "o">>

option_from_string_bool(str, opt_) ==
    IF str = t_r_u_e \/ str = y_e_s THEN Done(TRUE)
    ELSE IF str = f_a_l_s_e \/ str = n_o THEN Done(FALSE)
    ELSE Thrown(opt_, BoolError)

\* The String codec: the text itself, both ways.
option_to_string_String(opt_) == opt_
option_from_string_String(str, opt_) == Done(str)

option_from_string_scalar(T, str, opt_) ==
    CASE T = "int" -> option_from_string_int(str, opt_)
      [] T = "bool" -> option_from_string_bool(str, opt_)
      [] T = "string" -> option_from_string_String(str, opt_)

\* A default-constructed scalar (T opt_elem; Key key; Value value;).
DefaultScalar(T) ==
    CASE T = "int" -> 0
      [] T = "bool" -> FALSE
      [] T = "string" -> <<>>

(***************************************************************************)
(* int and StronglyTypedNumber: option_add.  opt += val overflows when the *)
(* sum is not an int; the outcome is then not defined by the language, and *)
(* is any of IntOverflowOutcomes.                                          *)
(***************************************************************************)
AddOverflows(x, val) ==
    \/ x > 0 /\ val > 0 /\ val > IntMax - x
    \/ x < 0 /\ val < 0 /\ val < IntMin - x

WrappedSum(x, val) ==
    IF x > 0 THEN (x + IntMin) + (val + IntMin)
    ELSE (x - IntMin) + (val - IntMin)

IntOverflowOutcomes(x, val) == {WrappedSum(x, val), IntMin, IntMax}

AddDone(value, flag) == [opt |-> value, err |-> NoError, ret |-> flag]
AddThrown(value, error) == [opt |-> value, err |-> error, ret |-> FALSE]

option_add_int(opt_, str) ==
    LET r == str_to_int(str)
    IN IF ~r.ok THEN {AddThrown(opt_, ParseError)}
       ELSE IF AddOverflows(opt_, r.val)
       THEN {AddDone(v, r.val # 0) : v \in IntOverflowOutcomes(opt_, r.val)}
       ELSE {AddDone(opt_ + r.val, r.val # 0)}

option_from_string_StronglyTypedNumber(str, opt_) ==
    LET r == str_to_int(str)
    IN IF r.ok THEN Done(r.val) ELSE Thrown(opt_, ParseError)

option_add_StronglyTypedNumber(opt_, str) ==
    LET r == str_to_int(str)
    IN IF ~r.ok THEN {AddThrown(opt_, ParseError)}
       ELSE IF AddOverflows(opt_, r.val)
       THEN {AddDone(v, r.val # 0) : v \in IntOverflowOutcomes(opt_, r.val)}
       ELSE {AddDone(opt_ + r.val, r.val # 0)}

\* The overload every other type resolves to.
option_add_WorstMatch(opt_, str) == {AddThrown(opt_, AddError)}

(***************************************************************************)
(* Vector<T>.                                                              *)
(***************************************************************************)
RECURSIVE JoinEscaped(_, _, _)
JoinEscaped(opt_, i, res) ==
    IF i > Len(opt_) THEN res
    ELSE LET one == res \o escape(option_to_string_String(opt_[i]), list_separator, backslash)
         IN JoinEscaped(opt_, i + 1,
                        IF i # Len(opt_) THEN Append(one, list_separator) ELSE one)

option_to_string_Vector(opt_) == JoinEscaped(opt_, 1, <<>>)

\* the loop of option_from_string over elems, opt_ being the destination so far
RECURSIVE VectorFill(_, _, _, _)
VectorFill(T, elems, i, opt_) ==
    IF i > Len(elems) THEN Done(opt_)
    ELSE LET r == option_from_string_scalar(T, elems[i], DefaultScalar(T))
         IN IF r.err # NoError THEN Thrown(opt_, r.err)
            ELSE VectorFill(T, elems, i + 1, Append(opt_, r.opt))

option_from_string_Vector(T, str, opt_) ==
    VectorFill(T, split(str, list_separator, backslash), 1, <<>>)

\* the add decoding into the destination itself
option_add_Vector_Replace(T, opt_, str) ==
    LET vec == option_from_string_Vector(T, str, opt_)
    IN IF vec.err # NoError THEN {AddThrown(opt_, vec.err)}
       ELSE {AddDone(vec.opt, vec.opt # <<>>)}

option_add_Vector(T, opt_, str) ==
    LET vec == option_from_string_Vector(T, str, <<>>)
    IN IF vec.err # NoError THEN {AddThrown(opt_, vec.err)}
       ELSE {AddDone(opt_ \o vec.opt, vec.opt # <<>>)}

(***************************************************************************)
(* HashMap<String, String>: a sequence of entries [key, value] in          *)
(* insertion order, no two with the same key.                              *)
(***************************************************************************)
\* HashMap::insert: an entry with the same key is overwritten.
HashMapInsert(m, k, v) ==
    IF \E i \in 1..Len(m) : m[i].key = k
    THEN LET i == CHOOSE j \in 1..Len(m) : m[j].key = k
         IN [m EXCEPT ![i] = [key |-> k, value |-> v]]
    ELSE Append(m, [key |-> k, value |-> v])

MapEntryToString(e) ==
    escape(option_to_string_String(e.key), pair_separator, backslash)
        \o <<pair_separator>>
        \o escape(option_to_string_String(e.value), pair_separator, backslash)

RECURSIVE JoinEntries(_, _, _)
JoinEntries(opt_, i, res) ==
    IF i > Len(opt_) THEN res
    ELSE LET sep == IF i # 1 THEN Append(res, list_separator) ELSE res
         IN JoinEntries(opt_, i + 1,
                        sep \o escape(MapEntryToString(opt_[i]), list_separator, backslash))

option_to_string_HashMap(opt_) == JoinEntries(opt_, 1, <<>>)

\* the loop of option_from_string over the entries, opt_ being the map so far
RECURSIVE HashMapFill(_, _, _)
HashMapFill(elems, i, opt_) ==
    IF i > Len(elems) THEN Done(opt_)
    ELSE LET pair_str == split(elems[i], pair_separator, backslash)
         IN IF Len(pair_str) # 2 THEN Thrown(opt_, MapError)
            ELSE LET k == option_from_string_String(pair_str[1], DefaultScalar("string"))
                     v == option_from_string_String(pair_str[2], DefaultScalar("string"))
                 IN HashMapFill(elems, i + 1, HashMapInsert(opt_, k.opt, v.opt))

\* the decode without opt.clear()
option_from_string_HashMap_NoClear(str, opt_) ==
    HashMapFill(split(str, list_separator, backslash), 1, opt_)

option_from_string_HashMap(str, opt_) ==
    HashMapFill(split(str, list_separator, backslash), 1, <<>>)

(***************************************************************************)
(* std::tuple<Types...>: the sequence of its fields, field I at index      *)
(* I + 1; Types is the sequence of the fields' scalar types.               *)
(***************************************************************************)
RECURSIVE TupleOptionDetail_to_string(_, _)
TupleOptionDetail_to_string(I, opt_) ==
    IF I = 0 THEN option_to_string_String(opt_[1])
    ELSE TupleOptionDetail_to_string(I - 1, opt_)
             \o <<tuple_separator>>
             \o escape(option_to_string_String(opt_[I + 1]), tuple_separator, backslash)

option_to_string_tuple(opt_) == TupleOptionDetail_to_string(Len(opt_) - 1, opt_)

\* field I is decoded first, then the fields below it
RECURSIVE TupleOptionDetail_from_string(_, _, _, _)
TupleOptionDetail_from_string(Types, I, elems, opt_) ==
    LET r == option_from_string_scalar(Types[I + 1], elems[I + 1], opt_[I + 1])
    IN IF r.err # NoError THEN Thrown(opt_, r.err)
       ELSE LET next == [opt_ EXCEPT ![I + 1] = r.opt]
            IN IF I = 0 THEN Done(next)
               ELSE TupleOptionDetail_from_string(Types, I - 1, elems, next)

option_from_string_tuple(Types, str, opt_) ==
    LET elems == split(str, tuple_separator, backslash)
    IN IF Len(elems) # Len(Types)
       THEN Thrown(opt_, IF Len(elems) < Len(Types) THEN TupleFewError
                         ELSE TupleManyError)
       ELSE TupleOptionDetail_from_string(Types, Len(Types) - 1, elems, opt_)

(***************************************************************************)
(* PrefixedList<String, String>: [prefix, list].                           *)
(***************************************************************************)
option_to_string_PrefixedList(opt_) ==
    opt_.prefix \o <<list_separator>> \o option_to_string_Vector(opt_.list)

\* find(str, ':'): the index of the first ':' of str, Len(str) + 1 when none
FindColon(str) ==
    IF \E i \in 1..Len(str) : str[i] = list_separator
    THEN CHOOSE i \in 1..Len(str) :
             /\ str[i] = list_separator
             /\ \A j \in 1..(i - 1) : str[j] # list_separator
    ELSE Len(str) + 1

option_from_string_PrefixedList(str, opt_) ==
    LET it == FindColon(str)
        p == option_from_string_String(SubSeq(str, 1, it - 1), opt_.prefix)
    IN IF it # Len(str) + 1
       THEN LET l == option_from_string_Vector("string", SubSeq(str, it + 1, Len(str)),
                                               opt_.list)
            IN [opt |-> PrefixedList(p.opt, l.opt), err |-> l.err]
       ELSE Done(PrefixedList(p.opt, opt_.list))

option_add_PrefixedList(opt_, str) ==
    {[r EXCEPT !.opt = PrefixedList(opt_.prefix, r.opt)] :
        r \in option_add_Vector("string", opt_.list, str)}

(***************************************************************************)
(* LineAndColumn: [line, column].                                          *)
(***************************************************************************)
option_from_string_LineAndColumn(str, opt_) ==
    LET vals == split2(str, comma)
    IN IF Len(vals) # 2 THEN Thrown(opt_, LineColumnError)
       ELSE LET l == str_to_int(vals[1])
                c == str_to_int(vals[2])
            IN IF ~l.ok THEN Thrown(opt_, ParseError)
               ELSE IF ~c.ok THEN Thrown([opt_ EXCEPT !.line = l.val], ParseError)
               ELSE Done(LineAndColumn(l.val, c.val))

(***************************************************************************)
(* The inputs of the calls.                                                *)
(***************************************************************************)
IntMaxStr == <<"2", "1", "4", "7", "4", "8", "3", "6", "4", "7">>
IntMinStr == <<"-", "2", "1", "4", "7", "4", "8", "3", "6", "4", "8">>

NumChars == {"0", "1", "-", "x"}
ListChars == {"a", list_separator, backslash}
MapChars == {"a", pair_separator, list_separator, backslash}
TupleChars == {"a", tuple_separator, backslash}
LineColumnChars == {"1", comma, "x"}

IntInputs == Strings(NumChars, MaxNumLen) \cup {IntMaxStr, IntMinStr}
BoolInputs == {t_r_u_e, y_e_s, f_a_l_s_e, n_o, <<"m">>, <<>>}
ListInputs == Strings(ListChars, MaxStrLen)
MapInputs == Strings(MapChars, MaxMapStrLen)
TupleInputs == Strings(TupleChars, MaxStrLen)
LineColumnInputs == Strings(LineColumnChars, MaxStrLen)

RECURSIVE JoinFields(_, _)
JoinFields(fields, sep) ==
    IF Len(fields) = 1 THEN fields[1]
    ELSE fields[1] \o <<sep>> \o JoinFields(Tail(fields), sep)

\* the tuple types of the model
StringTuple == <<"string", "string">>
IntBoolTuple == <<"int", "bool">>

\* texts of int and bool fields, joined into the inputs of Vector<int> and tuple<int, bool>
IntTexts == {<<"1">>, <<"7">>, <<"x">>}
BoolTexts == {y_e_s, n_o, <<"m">>}
IntListInputs ==
    {<<>>} \cup {JoinFields(f, list_separator) :
                    f \in Lists(IntTexts, MaxListLen + 1) \ {<<>>}}
IntBoolTupleInputs ==
    {JoinFields(f, tuple_separator) :
        f \in Lists(IntTexts \cup BoolTexts, Len(IntBoolTuple) + 1) \ {<<>>}}

\* the values that are encoded
ListValues == Lists(Strings(ListChars, MaxElemLen), MaxListLen)
MapElements == Strings(MapChars, MaxMapElemLen)
MapValues ==
    {m \in Lists({[key |-> k, value |-> v] : k, v \in MapElements}, MaxListLen) :
        \A i, j \in 1..Len(m) : m[i].key = m[j].key => i = j}
TupleValues ==
    {t \in Lists(Strings(TupleChars, MaxElemLen), Len(StringTuple)) :
        Len(t) = Len(StringTuple)}
PrefixValues == Strings(ListChars, MaxElemLen)

(***************************************************************************)
(* The state: the option under test and the record of the call made on it. *)
(* A behaviour starts with the option holding any value of its type (from  *)
(* a bounded set) and makes one call.  src is the value that was encoded   *)
(* in a round trip, and the option's first value otherwise.                *)
(***************************************************************************)
IntKinds == {"int", "strong"}
ListKinds == {"str_list", "plist"}
MapKinds == {"map"}
Kinds == IntKinds \cup ListKinds \cup MapKinds
            \cup {"int_list", "tuple_ss", "tuple_ib", "size", "bool", "linecol"}

DestElements == Strings({"a"}, MaxElemLen)
DestLists == Lists(DestElements, MaxDestLen)
DestMapElements == Strings({"a"}, MaxMapElemLen)
DestInts == {0, 5, -3, IntMax, IntMin}

\* the values the option holds before the call
Destinations(k) ==
    CASE k \in {"int", "strong"} -> DestInts
      [] k = "size" -> {0, 5}
      [] k = "bool" -> BOOLEAN
      [] k = "str_list" -> DestLists
      [] k = "int_list" -> Lists({5}, MaxDestLen)
      [] k = "map" ->
           {m \in Lists({[key |-> a, value |-> b] : a, b \in DestMapElements}, MaxDestLen) :
               \A i, j \in 1..Len(m) : m[i].key = m[j].key => i = j}
      [] k = "tuple_ss" ->
           {t \in Lists(DestElements, Len(StringTuple)) : Len(t) = Len(StringTuple)}
      [] k = "tuple_ib" -> {<<0, FALSE>>, <<5, TRUE>>}
      [] k = "plist" -> {PrefixedList(p, l) : p \in DestElements, l \in DestLists}
      [] k = "linecol" -> {LineAndColumn(0, 0), LineAndColumn(3, 4)}

InitOf(ks) ==
    /\ kind \in ks
    /\ opt \in Destinations(kind)
    /\ pre = opt
    /\ op = "init"
    /\ arg = <<>>
    /\ src = opt
    /\ err = NoError
    /\ ret = FALSE

Ready(k) == kind = k /\ op = "init"

\* one call on the option: r is what the call leaves
Leaves(name, input, r, flag) ==
    /\ opt' = r.opt
    /\ err' = r.err
    /\ ret' = flag
    /\ pre' = opt
    /\ op' = name
    /\ arg' = input
    /\ UNCHANGED kind

FromString(input, r) == Leaves("from_string", input, r, FALSE) /\ UNCHANGED src

Add(input, results) ==
    \E r \in results : Leaves("add", input, r, r.ret) /\ UNCHANGED src

\* option_to_string of value, then option_from_string of the text into the option
RoundTrip(value, text, r) == Leaves("round_trip", text, r, FALSE) /\ src' = value

(***************************************************************************)
(* The calls.                                                              *)
(***************************************************************************)
FromString_int ==
    /\ Ready("int")
    /\ \E str \in IntInputs : FromString(str, option_from_string_int(str, opt))

Add_int ==
    /\ Ready("int")
    /\ \E str \in IntInputs : Add(str, option_add_int(opt, str))

FromString_StronglyTypedNumber ==
    /\ Ready("strong")
    /\ \E str \in IntInputs :
           FromString(str, option_from_string_StronglyTypedNumber(str, opt))

Add_StronglyTypedNumber ==
    /\ Ready("strong")
    /\ \E str \in IntInputs : Add(str, option_add_StronglyTypedNumber(opt, str))

Add_size ==
    /\ Ready("size")
    /\ \E str \in IntInputs : Add(str, option_add_WorstMatch(opt, str))

FromString_bool ==
    /\ Ready("bool")
    /\ \E str \in BoolInputs : FromString(str, option_from_string_bool(str, opt))

Add_bool ==
    /\ Ready("bool")
    /\ \E str \in BoolInputs : Add(str, option_add_WorstMatch(opt, str))

FromString_Vector ==
    /\ Ready("str_list")
    /\ \E str \in ListInputs :
           FromString(str, option_from_string_Vector("string", str, opt))

Add_Vector ==
    /\ Ready("str_list")
    /\ \E str \in ListInputs : Add(str, option_add_Vector("string", opt, str))

RoundTrip_Vector ==
    /\ Ready("str_list")
    /\ \E v \in ListValues :
           LET str == option_to_string_Vector(v)
           IN RoundTrip(v, str, option_from_string_Vector("string", str, opt))

FromString_IntVector ==
    /\ Ready("int_list")
    /\ \E str \in IntListInputs :
           FromString(str, option_from_string_Vector("int", str, opt))

Add_IntVector ==
    /\ Ready("int_list")
    /\ \E str \in IntListInputs : Add(str, option_add_Vector("int", opt, str))

FromString_HashMap ==
    /\ Ready("map")
    /\ \E str \in MapInputs : FromString(str, option_from_string_HashMap(str, opt))

Add_HashMap ==
    /\ Ready("map")
    /\ \E str \in Strings(MapChars, 1) : Add(str, option_add_WorstMatch(opt, str))

RoundTrip_HashMap ==
    /\ Ready("map")
    /\ \E m \in MapValues :
           LET str == option_to_string_HashMap(m)
           IN RoundTrip(m, str, option_from_string_HashMap(str, opt))

FromString_tuple ==
    /\ Ready("tuple_ss")
    /\ \E str \in TupleInputs :
           FromString(str, option_from_string_tuple(StringTuple, str, opt))

Add_tuple ==
    /\ Ready("tuple_ss")
    /\ \E str \in TupleInputs : Add(str, option_add_WorstMatch(opt, str))

RoundTrip_tuple ==
    /\ Ready("tuple_ss")
    /\ \E t \in TupleValues :
           LET str == option_to_string_tuple(t)
           IN RoundTrip(t, str, option_from_string_tuple(StringTuple, str, opt))

FromString_IntBoolTuple ==
    /\ Ready("tuple_ib")
    /\ \E str \in IntBoolTupleInputs :
           FromString(str, option_from_string_tuple(IntBoolTuple, str, opt))

FromString_PrefixedList ==
    /\ Ready("plist")
    /\ \E str \in ListInputs : FromString(str, option_from_string_PrefixedList(str, opt))

Add_PrefixedList ==
    /\ Ready("plist")
    /\ \E str \in ListInputs : Add(str, option_add_PrefixedList(opt, str))

RoundTrip_PrefixedList ==
    /\ Ready("plist")
    /\ \E p \in PrefixValues, l \in ListValues :
           LET v == PrefixedList(p, l)
               str == option_to_string_PrefixedList(v)
           IN RoundTrip(v, str, option_from_string_PrefixedList(str, opt))

FromString_LineAndColumn ==
    /\ Ready("linecol")
    /\ \E str \in LineColumnInputs :
           FromString(str, option_from_string_LineAndColumn(str, opt))

Add_LineAndColumn ==
    /\ Ready("linecol")
    /\ \E str \in LineColumnInputs : Add(str, option_add_WorstMatch(opt, str))

(***************************************************************************)
(* Specifications: all the option types; HashMap alone; the types with an  *)
(* appending add.                                                          *)
(***************************************************************************)
Init == InitOf(Kinds)

Next ==
    \/ FromString_int
    \/ Add_int
    \/ FromString_StronglyTypedNumber
    \/ Add_StronglyTypedNumber
    \/ Add_size
    \/ FromString_bool
    \/ Add_bool
    \/ FromString_Vector
    \/ Add_Vector
    \/ RoundTrip_Vector
    \/ FromString_IntVector
    \/ Add_IntVector
    \/ FromString_HashMap
    \/ Add_HashMap
    \/ RoundTrip_HashMap
    \/ FromString_tuple
    \/ Add_tuple
    \/ RoundTrip_tuple
    \/ FromString_IntBoolTuple
    \/ FromString_PrefixedList
    \/ Add_PrefixedList
    \/ RoundTrip_PrefixedList
    \/ FromString_LineAndColumn
    \/ Add_LineAndColumn

Spec == Init /\ [][Next]_vars

InitHashMap == InitOf(MapKinds)
NextHashMap == FromString_HashMap \/ Add_HashMap
SpecHashMap == InitHashMap /\ [][NextHashMap]_vars

InitAppend == InitOf(ListKinds)
NextAppend ==
    \/ FromString_Vector
    \/ Add_Vector
    \/ FromString_PrefixedList
    \/ Add_PrefixedList
SpecAppend == InitAppend /\ [][NextAppend]_vars

(***************************************************************************)
(* Properties.                                                             *)
(***************************************************************************)
CompositeKinds == {"str_list", "int_list", "map", "tuple_ss", "tuple_ib", "plist"}

Pairs(m) == {<<m[i].key, m[i].value>> : i \in 1..Len(m)}

\* a + b = c over the integers, for ints a, b and c
SumIs(a, b, c) == ~AddOverflows(a, b) /\ a + b = c

\* C1: a list of strings that is encoded and then decoded into any destination
\* list leaves the destination equal to the list, the empty list and the list
\* holding one empty string included.
C1_ListRoundTrip ==
    (kind = "str_list" /\ op = "round_trip") => (err = NoError /\ opt = src)

\* C2: the encoding of a tuple is its fields, each escaped for '|' and '\', field 0
\* included, joined with '|'; decoding it succeeds and yields the tuple.
C2_TupleRoundTrip ==
    (kind = "tuple_ss" /\ op = "round_trip") =>
        /\ arg = JoinFields([i \in 1..Len(src) |->
                                escape(src[i], tuple_separator, backslash)],
                            tuple_separator)
        /\ err = NoError
        /\ opt = src

\* C3: a prefixed list that is encoded and then decoded is recovered exactly,
\* prefix and list, also when the prefix holds ':' or '\'.
C3_PrefixedListRoundTrip ==
    (kind = "plist" /\ op = "round_trip") => (err = NoError /\ opt = src)

\* C4: a map that is encoded and then decoded into any destination map succeeds
\* and leaves the destination with exactly the key/value pairs of the map.
C4_MapRoundTrip ==
    (kind = "map" /\ op = "round_trip") => (err = NoError /\ Pairs(opt) = Pairs(src))

\* C5: a decode or an add on a list, map, tuple or prefixed list that fails with
\* an error leaves the destination equal to its value before the call.
C5_FailureAtomicity ==
    (kind \in CompositeKinds /\ op # "init" /\ err # NoError) => opt = pre

\* C6: decoding into a tuple of arity N is rejected for its arity exactly when the
\* split of the input on '|' has a count other than N, with "not enough elements in
\* tuple" below N and "too many elements in tuple" above N; with N elements and no
\* error, element i is decoded into field i.
ClaimedTupleManyError == "too many elements in tuple"
C6_TupleArity ==
    (kind \in {"tuple_ss", "tuple_ib"} /\ op = "from_string") =>
        LET Types == IF kind = "tuple_ss" THEN StringTuple ELSE IntBoolTuple
            elems == split(arg, tuple_separator, backslash)
        IN /\ Len(elems) < Len(Types) => err = TupleFewError
           /\ Len(elems) > Len(Types) => err = ClaimedTupleManyError
           /\ Len(elems) = Len(Types) => err \notin {TupleFewError, ClaimedTupleManyError}
           /\ (Len(elems) = Len(Types) /\ err = NoError) =>
                  \A i \in 1..Len(Types) :
                      opt[i] = option_from_string_scalar(Types[i], elems[i], pre[i]).opt

\* C7: add on an int or a strongly typed number with a string that parses to the
\* delta d leaves the value equal to the old value plus d and returns true exactly
\* when d is not 0; a string that is no numeral fails with ParseError and leaves
\* the value unchanged.
C7_IntegerAdd ==
    (kind \in IntKinds /\ op = "add") =>
        LET d == str_to_int(arg)
        IN IF d.ok
           THEN err = NoError /\ SumIs(pre, d.val, opt) /\ ret = (d.val # 0)
           ELSE err = ParseError /\ opt = pre

\* C8: add fails as unsupported, leaving the value unchanged, for bool, map, tuple
\* and line-and-column, and for no other type: on int, size, strongly typed number,
\* list and prefixed list an add of a well-formed delta does not fail as
\* unsupported, and on a size it adds the delta to the value.
UnsupportedKinds == {"bool", "map", "tuple_ss", "tuple_ib", "linecol"}
WellFormedDelta == kind \in IntKinds \cup {"size"} => str_to_int(arg).ok
C8_AddSupport ==
    op = "add" =>
        /\ kind \in UnsupportedKinds => (err = AddError /\ opt = pre)
        /\ (kind \notin UnsupportedKinds /\ WellFormedDelta) => err # AddError
        /\ (kind = "size" /\ WellFormedDelta) => SumIs(pre, str_to_int(arg).val, opt)

\* C9: a successful decode into a map drops every prior entry that is not in the
\* input, leaves one entry per distinct key of the input, and gives each key the
\* value of its last entry in the input; an entry that does not split on '=' into
\* exactly 2 parts fails with "map option expects key=value".
InputPairs(str) ==
    LET entries == split(str, list_separator, backslash)
    IN [i \in 1..Len(entries) |-> split(entries[i], pair_separator, backslash)]

C9_MapDecode ==
    (kind = "map" /\ op = "from_string") =>
        LET pairs == InputPairs(arg)
            malformed == \E i \in 1..Len(pairs) : Len(pairs[i]) # 2
            Last(k) == CHOOSE i \in 1..Len(pairs) :
                           /\ pairs[i][1] = k
                           /\ \A j \in (i + 1)..Len(pairs) : pairs[j][1] # k
        IN /\ malformed <=> err = "map option expects key=value"
           /\ ~malformed =>
                  /\ err = NoError
                  /\ {opt[i].key : i \in 1..Len(opt)} = {pairs[i][1] : i \in 1..Len(pairs)}
                  /\ \A i, j \in 1..Len(opt) : opt[i].key = opt[j].key => i = j
                  /\ \A i \in 1..Len(opt) : opt[i].value = pairs[Last(opt[i].key)][2]
                  /\ \A e \in Pairs(pre) \cap Pairs(opt) :
                         \E i \in 1..Len(pairs) : <<pairs[i][1], pairs[i][2]>> = e

\* C9 witness: a map with an entry is decoded from an input that gives one key
\* twice with two values; the decode succeeds and keeps the second.
C9_Witness ==
    /\ kind = "map" /\ op = "from_string" /\ err = NoError
    /\ pre # <<>>
    /\ Pairs(pre) \cap Pairs(opt) = {}
    /\ LET pairs == InputPairs(arg)
       IN /\ Len(pairs) = 2 /\ Len(opt) = 1
          /\ pairs[1][1] = pairs[2][1]
          /\ pairs[1][2] # pairs[2][2]
          /\ opt[1].value = pairs[2][2]

====
